---------------------------- MODULE Spec2Model ----------------------------
(***************************************************************************)
(* Model of docassemble.ssioverpaymentwaiver: the addendum overflow field  *)
(* (addendum.py, ALAddendumField), the field collection (addendum.py,      *)
(* ALAddendumFieldDict) and the field-office lookup (ssa.py,               *)
(* FieldOfficeList.load_offices).                                          *)
(*                                                                         *)
(* Python values are records [kind, s]: a str is the sequence of its       *)
(* characters, a list the sequence of its elements, an opaque object (a    *)
(* number) the one-element sequence of its printed form, None has kind     *)
(* "none" and a raised exception has kind "error" with the exception name. *)
(***************************************************************************)
EXTENDS Integers, Sequences, FiniteSets, TLC

VARIABLES
  \* --- one ALAddendumField and one pair of calls on it
  field_value,        \* what the interview binds to field_name (or Undefined)
  overflow_trigger,   \* [isBool, n]: n is the int value (True = 1, False = 0)
  overflow_message,   \* the overflow marker argument
  input_width,        \* the input_width argument
  preserve_newlines,  \* the preserve_newlines argument
  safe_text,          \* result of safe_value(...), NotCalled before the call
  overflow_text,      \* result of overflow_value(...), NotCalled before the call
  \* --- one ALAddendumFieldDict and the interview's variable bindings
  elements,           \* sequence of [key, field_name, overflow_trigger]
  bindings,           \* field name -> value bound by the interview
  dict_error,         \* exception that ended the last collection call, or "none"
  has_overflow_result,\* result of has_overflow(), NotCalled before the call
  overflow_result,    \* result of overflow(), NotCalled before the call
  loaded,             \* the last from_list call, if no register came after it
  \* --- one FieldOfficeList.load_offices call
  pc,                 \* position in load_offices
  number,             \* the `number` argument
  geocoded,           \* address.location has latitude and longitude
  distance,           \* search radius in miles
  loop,               \* loop counter of load_offices
  results,            \* last value returned by nearest_offices
  offices,            \* elements of the FieldOfficeList
  queries,            \* number of calls of nearest_offices so far
  faults              \* which failures the collaborators produced in this call

field_vars == <<field_value, overflow_trigger, overflow_message, input_width,
                preserve_newlines, safe_text, overflow_text>>
dict_vars == <<elements, bindings, dict_error, has_overflow_result,
               overflow_result, loaded>>
office_vars == <<pc, number, geocoded, distance, loop, results, offices,
                 queries, faults>>
vars == <<field_vars, dict_vars, office_vars>>

(***************************************************************************)
(* Bounds of the model.                                                    *)
(***************************************************************************)
MaxLen == 3          \* longest string value
MaxListLen == 3      \* longest list value
MaxTrigger == 3      \* largest integer overflow_trigger
MaxWidth == 2        \* largest input_width of the general specification

(***************************************************************************)
(* Python values.                                                          *)
(***************************************************************************)
NL == "\n"
CR == "\r"
SP == " "
Chars == {"a", "b", SP, NL, CR}
Items == {"x", "y"}

Str(s) == [kind |-> "str", s |-> s]
List(s) == [kind |-> "list", s |-> s]
Obj(d) == [kind |-> "obj", s |-> <<d>>]
None == [kind |-> "none", s |-> <<>>]
Raised(e) == [kind |-> "error", s |-> <<e>>]
Undefined == [kind |-> "undefined", s |-> <<>>]
NotCalled == [kind |-> "notcalled", s |-> <<>>]

IntTrigger(n) == [isBool |-> FALSE, n |-> n]
BoolTrigger(b) == [isBool |-> TRUE, n |-> IF b THEN 1 ELSE 0]

Max(a, b) == IF a >= b THEN a ELSE b
Min(a, b) == IF a <= b THEN a ELSE b

RECURSIVE SeqsUpTo(_, _)
SeqsUpTo(S, n) ==
  IF n = 0 THEN {<<>>}
  ELSE LET shorter == SeqsUpTo(S, n - 1)
       IN shorter \cup {Append(t, c) : t \in shorter, c \in S}

\* s[:n]
SliceTo(s, n) ==
  LET stop == IF n >= 0 THEN Min(n, Len(s)) ELSE Max(Len(s) + n, 0)
  IN SubSeq(s, 1, stop)

\* s[n:]
SliceFrom(s, n) ==
  LET start == IF n >= 0 THEN Min(n, Len(s)) ELSE Max(Len(s) + n, 0)
  IN SubSeq(s, start + 1, Len(s))

\* s.count(c)
Count(s, c) == Cardinality({i \in 1..Len(s) : s[i] = c})

IsBreak(c) == c \in {NL, CR}
IsSpace(c) == c \in {SP, NL, CR}

\* re.sub(r"[\r\n]+|\r+|\n+", repl, s): every maximal run of line-break
\* characters becomes one repl
ReSubBreaks(repl, s) ==
  LET marked == [i \in 1..Len(s) |->
                   IF ~IsBreak(s[i]) THEN <<s[i]>>
                   ELSE IF i > 1 /\ IsBreak(s[i - 1]) THEN <<>>
                   ELSE <<repl>>]
      kept == SelectSeq(marked, LAMBDA m : m # <<>>)
  IN [i \in 1..Len(kept) |-> kept[i][1]]

\* s.rstrip()
RStrip(s) ==
  LET solid == {i \in 1..Len(s) : ~IsSpace(s[i])}
  IN IF solid = {} THEN <<>>
     ELSE SubSeq(s, 1, CHOOSE i \in solid : \A j \in solid : j <= i)

\* s.split(sep): always at least one piece
RECURSIVE Split(_, _)
Split(s, sep) ==
  LET at == {i \in 1..Len(s) : s[i] = sep}
  IN IF at = {} THEN <<s>>
     ELSE LET first == CHOOSE i \in at : \A j \in at : i <= j
          IN <<SubSeq(s, 1, first - 1)>>
               \o Split(SubSeq(s, first + 1, Len(s)), sep)

\* bool(v)
Truthy(v) ==
  CASE v.kind \in {"str", "list"} -> v.s # <<>>
    [] v.kind = "obj" -> v.s # <<"0">>
    [] OTHER -> FALSE

(***************************************************************************)
(* ALAddendumField                                                         *)
(***************************************************************************)
\* value_if_defined(): the bound value, "" when field_name is not defined
value_if_defined(binding) ==
  IF binding.kind = "undefined" THEN Str(<<>>) ELSE binding

\* value()
full_value(binding) == value_if_defined(binding)

\* max_lines without the line added to the quotient
max_lines_NoExtraLine(trigger, width, overflow_message_length) ==
  Max(trigger.n - overflow_message_length, 0) \div width

\* max_lines(input_width, overflow_message_length)
max_lines(trigger, width, overflow_message_length) ==
  (Max(trigger.n - overflow_message_length, 0) \div width) + 1

\* max_chars that leaves no room for the marker
max_chars_IgnoringMarker(trigger, message) == trigger.n

\* max_chars of safe_value
max_chars(trigger, message) == Max(trigger.n - Len(message), 0)

\* the inner while loop of safe_value: take input_width characters of the
\* paragraph per line until max_lines is passed or the paragraph is finished
RECURSIVE TakeChunks(_, _, _, _, _)
TakeChunks(retval, paragraph, line, maxLines, width) ==
  IF line <= maxLines /\ Len(paragraph) > 0
  THEN TakeChunks(retval \o SliceTo(paragraph, width),
                  SliceFrom(paragraph, width), line + 1, maxLines, width)
  ELSE [retval |-> retval, rest |-> paragraph, line |-> line]

\* the outer while loop of safe_value; para counts from 0 as in the source
RECURSIVE PackParas(_, _, _, _, _, _)
PackParas(retval, paras, para, line, maxLines, width) ==
  IF line <= maxLines /\ para < Len(paras)
  THEN IF Len(paras[para + 1]) <= width
       THEN PackParas(retval \o paras[para + 1] \o <<NL>>, paras, para + 1,
                      line + 1, maxLines, width)
       ELSE LET r == TakeChunks(retval, paras[para + 1], line, maxLines, width)
                rest == [paras EXCEPT ![para + 1] = r.rest]
            IN IF Len(r.rest) = 0
               THEN PackParas(r.retval \o <<NL>>, rest, para + 1, r.line,
                              maxLines, width)
               ELSE PackParas(r.retval, rest, para, r.line, maxLines, width)
  ELSE [retval |-> retval, paras |-> paras, para |-> para]

\* the preserve_newlines branch of safe_value for a str
PackedValue(s, message, maxLines, width) ==
  LET normal == RStrip(ReSubBreaks(NL, s))
      p == PackParas(<<>>, Split(normal, NL), 0, 1, maxLines, width)
  IN IF Len(p.paras) > p.para THEN Str(RStrip(p.retval) \o message)
     ELSE Str(p.retval)

\* the single-line branch of safe_value for a str
SingleLineValue(s, trigger, message) ==
  LET cut == SliceTo(RStrip(ReSubBreaks(SP, s)), max_chars(trigger, message))
  IN IF Len(s) > trigger.n THEN Str(cut \o message) ELSE Str(cut)

\* the fast path test of safe_value
FitsUnmodified(v, trigger) ==
  /\ v.kind = "str"
  /\ Len(v.s) <= trigger.n
  /\ Count(v.s, CR) + Count(v.s, NL) = 0

\* safe_value(overflow_message, input_width, preserve_newlines, _original_value)
safe_value(binding, trigger, message, width, preserve, original_value) ==
  LET v == IF Truthy(original_value) THEN original_value
           ELSE value_if_defined(binding)
  IN IF FitsUnmodified(v, trigger) THEN v
     ELSE LET maxLines == max_lines(trigger, width, Len(message))
          IN IF preserve /\ maxLines > 1 /\ v.kind = "str"
             THEN PackedValue(v.s, message, maxLines, width)
             ELSE IF v.kind = "str" THEN SingleLineValue(v.s, trigger, message)
             ELSE IF v.kind = "list" THEN List(SliceTo(v.s, trigger.n))
             ELSE v

\* the str branch of overflow_value
StringOverflow(original, safe, message) ==
  LET value_to_process == RStrip(ReSubBreaks(NL, original))
      overflow_start == Max(Len(safe) - Len(message), 0)
  IN IF safe = value_to_process THEN Str(<<>>)
     ELSE Str(SliceFrom(value_to_process, overflow_start))

\* the slice taken one element late
SliceFromTrigger_OneLate(original, trigger) ==
  IF original.kind = "list" THEN List(SliceFrom(original.s, trigger.n + 1))
  ELSE Raised("TypeError")

\* original_value[self.overflow_trigger:]
SliceFromTrigger(original, trigger) ==
  IF original.kind = "list" THEN List(SliceFrom(original.s, trigger.n))
  ELSE Raised("TypeError")

\* overflow_value(preserve_newlines, input_width, overflow_message)
overflow_value(binding, trigger, preserve, width, message) ==
  IF trigger.isBool /\ trigger.n = 1 THEN full_value(binding)
  ELSE LET original == value_if_defined(binding)
           safe == safe_value(binding, trigger, message, width, preserve,
                              original)
       IN IF safe.kind = "str" THEN StringOverflow(original.s, safe.s, message)
          ELSE SliceFromTrigger(original, trigger)


(***************************************************************************)
(* ALAddendumFieldDict                                                     *)
(*                                                                         *)
(* elements is the ordered mapping as a sequence of entries [key,          *)
(* field_name, overflow_trigger] in insertion order.                       *)
(***************************************************************************)
Names == {"A", "B"}
Unset == [isBool |-> FALSE, n |-> -1]
NoneRef == "None"
NotLoaded == [called |-> FALSE, before |-> <<>>, data |-> <<>>]
DefaultInputWidth == 80

KeyIndex(els, key) ==
  IF \E i \in 1..Len(els) : els[i].key = key
  THEN CHOOSE i \in 1..Len(els) : els[i].key = key
  ELSE 0

\* self.elements[key] = entry: a new key goes last, an old key keeps its place
SetItem(els, key, entry) ==
  IF KeyIndex(els, key) = 0 THEN Append(els, entry)
  ELSE [els EXCEPT ![KeyIndex(els, key)] = entry]

\* initializeObject(key, ALAddendumField): the base class stores a new object
\* under the key, the override names it after the key, and returns nothing
initializeObject(els, key) ==
  [elements |-> SetItem(els, key,
      [key |-> key, field_name |-> key, overflow_trigger |-> Unset]),
   returned |-> NoneRef]

\* new_field.field_name = ...; new_field.overflow_trigger = ...
SetAttributes(els, ref, entry) ==
  [els EXCEPT ![KeyIndex(els, ref)] =
      [key |-> ref, field_name |-> entry.field_name,
       overflow_trigger |-> entry.overflow_trigger]]

\* from_list(data)
RECURSIVE from_list(_, _)
from_list(els, data) ==
  IF data = <<>> THEN [elements |-> els, error |-> "none"]
  ELSE LET made == initializeObject(els, Head(data).field_name)
       IN IF made.returned = NoneRef
          THEN [elements |-> made.elements, error |-> "AttributeError"]
          ELSE from_list(SetAttributes(made.elements, made.returned, Head(data)),
                         Tail(data))

\* fields[key].overflow_trigger = trigger: an absent key is created implicitly
register(els, key, trigger) ==
  LET present == IF KeyIndex(els, key) = 0
                 THEN initializeObject(els, key).elements ELSE els
  IN [present EXCEPT ![KeyIndex(present, key)].overflow_trigger = trigger]

\* field.overflow_value() with the default arguments
FieldOverflow(entry, binds) ==
  IF entry.overflow_trigger = Unset THEN Raised("AttributeError")
  ELSE overflow_value(binds[entry.field_name], entry.overflow_trigger,
                      FALSE, DefaultInputWidth, <<>>)

\* len(v)
PyLen(v) ==
  IF v.kind \in {"str", "list"} THEN [kind |-> "int", s |-> <<Len(v.s)>>]
  ELSE IF v.kind = "error" THEN v
  ELSE Raised("TypeError")

PyBool(b) == [kind |-> "bool", s |-> <<IF b THEN "True" ELSE "False">>]

\* [field for field in self.values() if len(field.overflow_value())]
RECURSIVE OverflowOnly(_, _, _)
OverflowOnly(els, binds, kept) ==
  IF els = <<>> THEN List(kept)
  ELSE LET n == PyLen(FieldOverflow(Head(els), binds))
       IN IF n.kind = "error" THEN n
          ELSE OverflowOnly(Tail(els), binds,
                 IF n.s[1] # 0 THEN Append(kept, Head(els).key) ELSE kept)

\* [field for field in self.values() if defined(field.field_name)]
AllDefined(els, binds) ==
  List(SelectSeq([i \in 1..Len(els) |-> els[i].key],
                 LAMBDA k : binds[els[KeyIndex(els, k)].field_name] # Undefined))

\* defined_fields(style)
defined_fields(els, binds, style) ==
  IF style = "overflow_only" THEN OverflowOnly(els, binds, <<>>)
  ELSE AllDefined(els, binds)

\* overflow()
overflow(els, binds) == defined_fields(els, binds, "overflow_only")

\* has_overflow(): stops at the first field with a truthy overflow_value()
RECURSIVE has_overflow(_, _)
has_overflow(els, binds) ==
  IF els = <<>> THEN PyBool(FALSE)
  ELSE LET v == FieldOverflow(Head(els), binds)
       IN IF v.kind = "error" THEN v
          ELSE IF Truthy(v) THEN PyBool(TRUE)
          ELSE has_overflow(Tail(els), binds)


(***************************************************************************)
(* FieldOfficeSearcher.nearest_offices and FieldOfficeList.load_offices    *)
(*                                                                         *)
(* A value returned by nearest_offices is None (the address could not be   *)
(* geocoded) or the decoded response: one without a features list, or a    *)
(* features list whose items are "ok" or "bad" (an expected property is    *)
(* missing).  A failed request raises instead of returning.                *)
(***************************************************************************)
MaxNumber == 3       \* largest `number` argument
MaxFeatures == 3     \* most features in one response
initial_distance == 5
max_loop == 9

NoResult == [kind |-> "unset", items |-> <<>>]
NoneResult == [kind |-> "none", items |-> <<>>]
NoFeatures == [kind |-> "nofeatures", items |-> <<>>]
Features(items) == [kind |-> "features", items |-> items]
RequestError == [kind |-> "raise", items |-> <<>>]

\* nearest_offices_by_lat_lng: requests.get or r.json() raises, or the decoded
\* body is returned whatever it holds
QueryOutcomes ==
  {RequestError, NoFeatures}
    \cup {Features(items) : items \in SeqsUpTo({"ok", "bad"}, MaxFeatures)}

\* nearest_offices: the pairs (address geocoded afterwards, outcome)
NearestOutcomes(located) ==
  IF located
  THEN {[geocoded |-> TRUE, result |-> r] : r \in QueryOutcomes}
  ELSE {[geocoded |-> FALSE, result |-> NoneResult]}
         \cup {[geocoded |-> TRUE, result |-> r] : r \in QueryOutcomes}

FaultOf(result) ==
  IF result = RequestError THEN {"network"}
  ELSE IF result = NoneResult THEN {"geocode"}
  ELSE {}

\* the for loop of load_offices: appendObject() comes before the item's
\* properties are read, so a bad item leaves its office behind and raises
RECURSIVE AppendOffices(_, _)
AppendOffices(list, items) ==
  IF items = <<>> THEN [offices |-> list, error |-> "none"]
  ELSE IF Head(items) = "bad"
       THEN [offices |-> Append(list, "incomplete"), error |-> "KeyError"]
       ELSE AppendOffices(Append(list, "office"), Tail(items))

\* load_offices up to and including the first query, which is outside the try
FirstQuery ==
  /\ pc = "start"
  /\ \E out \in NearestOutcomes(geocoded) :
       /\ geocoded' = out.geocoded
       /\ faults' = faults \cup FaultOf(out.result)
       /\ IF out.result = RequestError
          THEN /\ pc' = "raised"
               /\ UNCHANGED <<results, loop>>
          ELSE /\ pc' = "loop"
               /\ results' = out.result
               /\ loop' = 1
  /\ distance' = initial_distance
  /\ queries' = 1
  /\ UNCHANGED <<number, offices>>

\* the while condition raises inside the try: return None
LoopCaught ==
  /\ pc = "loop"
  /\ loop < max_loop
  /\ results.kind # "features"
  /\ pc' = "returned"
  /\ UNCHANGED <<number, geocoded, distance, loop, results, offices, queries,
                 faults>>

\* the while loop querying again whatever the last response held
LoopQuery_IgnoringCount ==
  /\ pc = "loop"
  /\ loop < max_loop
  /\ results.kind = "features"
  /\ distance' = distance * 2
  /\ queries' = queries + 1
  /\ \E out \in NearestOutcomes(geocoded) :
       /\ geocoded' = out.geocoded
       /\ faults' = faults \cup FaultOf(out.result)
       /\ IF out.result = RequestError
          THEN /\ pc' = "returned"
               /\ UNCHANGED <<results, loop>>
          ELSE /\ pc' = "loop"
               /\ results' = out.result
               /\ loop' = loop + 1
  /\ UNCHANGED <<number, offices>>

\* one iteration of the while loop; an exception of the query is caught
LoopQuery ==
  /\ pc = "loop"
  /\ loop < max_loop
  /\ results.kind = "features"
  /\ Len(results.items) < number
  /\ distance' = distance * 2
  /\ queries' = queries + 1
  /\ \E out \in NearestOutcomes(geocoded) :
       /\ geocoded' = out.geocoded
       /\ faults' = faults \cup FaultOf(out.result)
       /\ IF out.result = RequestError
          THEN /\ pc' = "returned"
               /\ UNCHANGED <<results, loop>>
          ELSE /\ pc' = "loop"
               /\ results' = out.result
               /\ loop' = loop + 1
  /\ UNCHANGED <<number, offices>>

\* the while condition is false: leave the try
LoopExit ==
  /\ pc = "loop"
  /\ \/ loop >= max_loop
     \/ results.kind = "features" /\ Len(results.items) >= number
  /\ pc' = "populate"
  /\ UNCHANGED <<number, geocoded, distance, loop, results, offices, queries,
                 faults>>

\* for item in results['features']: ...; self.gathered = True
Populate ==
  /\ pc = "populate"
  /\ IF results.kind # "features"
     THEN /\ pc' = "raised"
          /\ UNCHANGED offices
     ELSE LET done == AppendOffices(offices, results.items)
          IN /\ offices' = done.offices
             /\ pc' = IF done.error = "none" THEN "returned" ELSE "raised"
  /\ UNCHANGED <<number, geocoded, distance, loop, results, queries, faults>>

(***************************************************************************)
(* Initial states of the three parts, and each part left alone.            *)
(***************************************************************************)
StringValues == {Str(s) : s \in SeqsUpTo(Chars, MaxLen)}
ListValues == {List(s) : s \in SeqsUpTo(Items, MaxListLen)}
ObjValues == {Obj("0"), Obj("5")}
Values == StringValues \cup ListValues \cup ObjValues \cup {Undefined}
Triggers ==
  {IntTrigger(n) : n \in 0..MaxTrigger} \cup {BoolTrigger(b) : b \in BOOLEAN}
Messages == {<<>>, <<".">>, <<".", ".">>, <<"a">>}
Widths == 1..MaxWidth

FieldIdle ==
  /\ field_value = Undefined
  /\ overflow_trigger = IntTrigger(0)
  /\ overflow_message = <<>>
  /\ input_width = DefaultInputWidth
  /\ preserve_newlines = FALSE
  /\ safe_text = NotCalled
  /\ overflow_text = NotCalled

DictIdle ==
  /\ elements = <<>>
  /\ bindings = [n \in Names |-> Undefined]
  /\ dict_error = "none"
  /\ has_overflow_result = NotCalled
  /\ overflow_result = NotCalled
  /\ loaded = NotLoaded

OfficeIdle ==
  /\ pc = "idle"
  /\ number = 0
  /\ geocoded = FALSE
  /\ distance = 0
  /\ loop = 0
  /\ results = NoResult
  /\ offices = <<>>
  /\ queries = 0
  /\ faults = {}

(***************************************************************************)
(* Spec: one field, any value, trigger, marker, width and mode; the two    *)
(* calls a template makes on it.                                           *)
(***************************************************************************)
CallSafeValue ==
  /\ safe_text = NotCalled
  /\ safe_text' = safe_value(field_value, overflow_trigger, overflow_message,
                             input_width, preserve_newlines, None)
  /\ UNCHANGED <<field_value, overflow_trigger, overflow_message, input_width,
                 preserve_newlines, overflow_text>>
  /\ UNCHANGED <<dict_vars, office_vars>>

CallOverflowValue ==
  /\ overflow_text = NotCalled
  /\ overflow_text' = overflow_value(field_value, overflow_trigger,
                                     preserve_newlines, input_width,
                                     overflow_message)
  /\ UNCHANGED <<field_value, overflow_trigger, overflow_message, input_width,
                 preserve_newlines, safe_text>>
  /\ UNCHANGED <<dict_vars, office_vars>>

FieldInit ==
  /\ field_value \in Values
  /\ overflow_trigger \in Triggers
  /\ overflow_message \in Messages
  /\ input_width \in Widths
  /\ preserve_newlines \in BOOLEAN
  /\ safe_text = NotCalled
  /\ overflow_text = NotCalled

Init == FieldInit /\ DictIdle /\ OfficeIdle

Next == CallSafeValue \/ CallOverflowValue

Spec == Init /\ [][Next]_vars

(***************************************************************************)
(* SpecScenario: preserve_newlines=True, trigger 160, input_width 80, no   *)
(* marker, and a value of two paragraphs of at most 80 characters.         *)
(***************************************************************************)
Rep(c, n) == [i \in 1..n |-> c]
ScenarioParagraphs == {Rep(c, n) : c \in {"a", "b"}, n \in {1, 2, 40, 79, 80}}
ScenarioBreaks == {<<NL>>, <<CR, NL>>, <<NL, NL>>}

ScenarioInit ==
  /\ field_value \in {Str(p1 \o br \o p2) : p1 \in ScenarioParagraphs,
                        br \in ScenarioBreaks, p2 \in ScenarioParagraphs}
  /\ overflow_trigger = IntTrigger(160)
  /\ overflow_message = <<>>
  /\ input_width = 80
  /\ preserve_newlines = TRUE
  /\ safe_text = NotCalled
  /\ overflow_text = NotCalled

InitScenario == ScenarioInit /\ DictIdle /\ OfficeIdle

SpecScenario == InitScenario /\ [][Next]_vars

(***************************************************************************)
(* SpecDict: one collection over the names A and B, whose values the       *)
(* interview has bound; an exception ends the run.                         *)
(***************************************************************************)
MaxRecords == 2      \* longest list handed to from_list
MaxDictTrigger == 2  \* largest integer trigger in the collection

DictValues ==
  {Undefined, Str(<<"a">>), Str(<<"a", "b">>), List(<<"x", "y">>), Obj("5")}
DictTriggers ==
  {IntTrigger(n) : n \in 1..MaxDictTrigger} \cup {BoolTrigger(TRUE)}
Records == [field_name : Names, overflow_trigger : DictTriggers]

FromList ==
  /\ dict_error = "none"
  /\ \E data \in SeqsUpTo(Records, MaxRecords) :
       LET done == from_list(elements, data)
       IN /\ elements' = done.elements
          /\ dict_error' = done.error
          /\ loaded' = [called |-> TRUE, before |-> elements, data |-> data]
  /\ has_overflow_result' = NotCalled
  /\ overflow_result' = NotCalled
  /\ UNCHANGED bindings
  /\ UNCHANGED <<field_vars, office_vars>>

Register ==
  /\ dict_error = "none"
  /\ \E key \in Names, trigger \in DictTriggers :
       elements' = register(elements, key, trigger)
  /\ has_overflow_result' = NotCalled
  /\ overflow_result' = NotCalled
  /\ loaded' = NotLoaded
  /\ UNCHANGED <<bindings, dict_error>>
  /\ UNCHANGED <<field_vars, office_vars>>

CallHasOverflow ==
  /\ dict_error = "none"
  /\ has_overflow_result = NotCalled
  /\ has_overflow_result' = has_overflow(elements, bindings)
  /\ UNCHANGED <<elements, bindings, dict_error, overflow_result, loaded>>
  /\ UNCHANGED <<field_vars, office_vars>>

CallOverflow ==
  /\ dict_error = "none"
  /\ overflow_result = NotCalled
  /\ overflow_result' = overflow(elements, bindings)
  /\ UNCHANGED <<elements, bindings, dict_error, has_overflow_result, loaded>>
  /\ UNCHANGED <<field_vars, office_vars>>

DictInit ==
  /\ elements = <<>>
  /\ bindings \in [Names -> DictValues]
  /\ dict_error = "none"
  /\ has_overflow_result = NotCalled
  /\ overflow_result = NotCalled
  /\ loaded = NotLoaded

InitDict == FieldIdle /\ DictInit /\ OfficeIdle

NextDict == FromList \/ Register \/ CallHasOverflow \/ CallOverflow

SpecDict == InitDict /\ [][NextDict]_vars

(***************************************************************************)
(* SpecOffices: one call of load_offices(address, number).                 *)
(***************************************************************************)
OfficeInit ==
  /\ pc = "start"
  /\ number \in 1..MaxNumber
  /\ geocoded \in BOOLEAN
  /\ distance = 0
  /\ loop = 0
  /\ results = NoResult
  /\ offices = <<>>
  /\ queries = 0
  /\ faults = {}

InitOffices == FieldIdle /\ DictIdle /\ OfficeInit

NextOffices ==
  \/ FirstQuery /\ UNCHANGED <<field_vars, dict_vars>>
  \/ LoopCaught /\ UNCHANGED <<field_vars, dict_vars>>
  \/ LoopQuery /\ UNCHANGED <<field_vars, dict_vars>>
  \/ LoopExit /\ UNCHANGED <<field_vars, dict_vars>>
  \/ Populate /\ UNCHANGED <<field_vars, dict_vars>>

SpecOffices == InitOffices /\ [][NextOffices]_vars

\* the call runs on: Python executes the next statement of load_offices
SpecOfficesFair == SpecOffices /\ WF_vars(NextOffices)


(***************************************************************************)
(* Properties of the overflow field (Spec, SpecScenario).                  *)
(***************************************************************************)
BothCalled == safe_text # NotCalled /\ overflow_text # NotCalled

\* the str the field resolves to, "" for an undefined name
ResolvedString == value_if_defined(field_value).s
IsStringField == value_if_defined(field_value).kind = "str"

NormalSpaces == RStrip(ReSubBreaks(SP, ResolvedString))
NormalBreaks == RStrip(ReSubBreaks(NL, ResolvedString))

\* t is the normalized value, each collapsed run of line breaks read as a
\* space or as a newline
IsNormalized(t) ==
  /\ Len(t) = Len(NormalBreaks)
  /\ \A i \in 1..Len(t) : t[i] \in {NormalSpaces[i], NormalBreaks[i]}

EndsWith(s, suffix) ==
  /\ Len(suffix) <= Len(s)
  /\ SubSeq(s, Len(s) - Len(suffix) + 1, Len(s)) = suffix

WithoutMarker(s) == SubSeq(s, 1, Len(s) - Len(overflow_message))

\* safe_text as it stands, and with the marker taken off its end
SafeBodies ==
  {safe_text.s} \cup (IF EndsWith(safe_text.s, overflow_message)
                      THEN {WithoutMarker(safe_text.s)} ELSE {})

\* C1: with overflow_trigger the boolean true, safe_value returns the empty
\* string and overflow_value returns full_value(), whatever the value is.
C1_BooleanTrigger ==
  (overflow_trigger = BoolTrigger(TRUE) /\ BothCalled)
    => /\ safe_text.s = <<>>
       /\ overflow_text = full_value(field_value)

\* C2: for every string value, marker and mode, safe_text without the marker
\* followed by overflow_text is the normalized value exactly once (a line
\* break kept by the packing at the very end is not counted).
C2_ReconstructsOnce ==
  (IsStringField /\ ~overflow_trigger.isBool /\ BothCalled)
    => \E body \in SafeBodies :
         \/ IsNormalized(body \o overflow_text.s)
         \/ IsNormalized(RStrip(body \o overflow_text.s))

\* C3: in single-line mode, for a string longer than the trigger, safe_text
\* without the marker followed by overflow_text is the string with every run
\* of line breaks collapsed and trailing whitespace trimmed.
C3_SingleLineReconstructs ==
  (/\ IsStringField
   /\ ~overflow_trigger.isBool
   /\ ~preserve_newlines
   /\ Len(ResolvedString) > overflow_trigger.n
   /\ BothCalled)
    => IsNormalized(WithoutMarker(safe_text.s) \o overflow_text.s)

LongSingleLine ==
  /\ IsStringField
  /\ ~overflow_trigger.isBool
  /\ ~preserve_newlines
  /\ Len(ResolvedString) > overflow_trigger.n
  /\ safe_text # NotCalled

\* C4 as stated: in single-line mode, for a string longer than the trigger
\* and every marker, safe_text with its marker is no longer than the trigger.
C4_WithinTrigger ==
  LongSingleLine => Len(safe_text.s) <= overflow_trigger.n

\* C4 amended: ... safe_text with its marker is no longer than the larger of
\* the trigger and the marker's length, so no longer than the trigger when
\* the marker is no longer than the trigger.
C4_WithinTriggerOrMarker ==
  LongSingleLine
    => /\ Len(safe_text.s) <= Max(overflow_trigger.n, Len(overflow_message))
       /\ Len(overflow_message) <= overflow_trigger.n
            => Len(safe_text.s) <= overflow_trigger.n

C4_Witness ==
  /\ LongSingleLine
  /\ overflow_message # <<>>
  /\ Len(overflow_message) < overflow_trigger.n
  /\ Len(safe_text.s) = overflow_trigger.n

\* C5: a string no longer than the trigger and without line breaks (the
\* empty string of an undefined value included) is returned unmodified by
\* safe_value, and overflow_value returns the empty string, for every marker,
\* width and mode.
C5_FitsUnmodified ==
  (/\ IsStringField
   /\ ~overflow_trigger.isBool
   /\ Len(ResolvedString) <= overflow_trigger.n
   /\ \A i \in 1..Len(ResolvedString) : ResolvedString[i] \notin {NL, CR}
   /\ BothCalled)
    => /\ safe_text = Str(ResolvedString)
       /\ overflow_text = Str(<<>>)

IsListField == field_value.kind = "list"
Kept == Min(overflow_trigger.n, Len(field_value.s))

\* C6: for a list value and an integer trigger, in either mode, safe_value
\* is the first overflow_trigger elements, overflow_value the elements from
\* index overflow_trigger on, and together they are the original list.
C6_ListSplit ==
  (IsListField /\ ~overflow_trigger.isBool /\ BothCalled)
    => /\ safe_text = List([i \in 1..Kept |-> field_value.s[i]])
       /\ overflow_text =
            List([i \in 1..(Len(field_value.s) - Kept) |->
                    field_value.s[Kept + i]])
       /\ Len(safe_text.s) <= overflow_trigger.n
       /\ safe_text.s \o overflow_text.s = field_value.s

C6_Witness ==
  /\ IsListField
  /\ ~overflow_trigger.isBool
  /\ BothCalled
  /\ overflow_trigger.n >= 1
  /\ Len(field_value.s) > overflow_trigger.n
  /\ preserve_newlines
  /\ overflow_message # <<>>
  /\ overflow_text.s # <<>>

LineBudget ==
  max_lines(overflow_trigger, input_width, Len(overflow_message))

\* the value is the paragraphs p1 and p2 separated by a run of line breaks
TwoParagraphs(p1, p2) ==
  \E br \in ScenarioBreaks : field_value = Str(p1 \o br \o p2)

PackedOnePerLine ==
  \A p1 \in ScenarioParagraphs, p2 \in ScenarioParagraphs :
    TwoParagraphs(p1, p2)
      => /\ safe_text = Str(p1 \o <<NL>> \o p2 \o <<NL>>)
         /\ overflow_text = Str(<<>>)

\* C7 as stated: with preserve_newlines, trigger 160, input_width 80 and no
\* marker the line budget max_lines is 2, and two paragraphs of at most 80
\* characters are packed one per line, no marker, nothing in overflow.
C7_BudgetTwo == BothCalled => (LineBudget = 2 /\ PackedOnePerLine)

\* C7 amended: ... the line budget max_lines is 3 (floor(160 / 80) + 1), and
\* two paragraphs of at most 80 characters are packed one per line, no
\* marker, nothing in overflow.
C7_BudgetThree == BothCalled => (LineBudget = 3 /\ PackedOnePerLine)

C7_Witness ==
  /\ BothCalled
  /\ TwoParagraphs(Rep("a", 80), Rep("b", 80))
  /\ safe_text.s = Rep("a", 80) \o <<NL>> \o Rep("b", 80) \o <<NL>>


(***************************************************************************)
(* Properties of the field collection (SpecDict).                          *)
(***************************************************************************)
Keys(els) == [i \in 1..Len(els) |-> els[i].key]
RecordNames(data) == [i \in 1..Len(data) |-> data[i].field_name]
Distinct(s) == \A i, j \in 1..Len(s) : s[i] = s[j] => i = j

\* every field is named after its key
NameEqualsKey ==
  \A i \in 1..Len(elements) : elements[i].field_name = elements[i].key

\* the record that from_list handles last for its name decides the trigger
LastFor(data, i) ==
  \A j \in (i + 1)..Len(data) : data[j].field_name # data[i].field_name

LoadedAsGiven ==
  /\ dict_error = "none"
  /\ \A i \in 1..Len(loaded.data) :
       /\ KeyIndex(elements, loaded.data[i].field_name) # 0
       /\ LastFor(loaded.data, i)
            => elements[KeyIndex(elements, loaded.data[i].field_name)]
                 .overflow_trigger = loaded.data[i].overflow_trigger
  /\ (loaded.before = <<>> /\ Distinct(RecordNames(loaded.data)))
       => Keys(elements) = RecordNames(loaded.data)

\* C8: from_list completes without error for every list of records and
\* leaves one field per record, in input order, named after its key and with
\* the record's overflow_trigger; every field is named after its key after
\* any sequence of register and from_list calls.
C8_LoadKeepsRecords ==
  /\ NameEqualsKey
  /\ loaded.called => LoadedAsGiven

BothQueried ==
  has_overflow_result # NotCalled /\ overflow_result # NotCalled

\* safe_value() of the entry's field is its whole value
WholeValueIsSafe(entry) ==
  safe_value(bindings[entry.field_name], entry.overflow_trigger, <<>>,
             DefaultInputWidth, FALSE, None)
    = value_if_defined(bindings[entry.field_name])

HasOverflowText(entry) ==
  LET text == FieldOverflow(entry, bindings)
  IN text.kind \in {"str", "list"} /\ text.s # <<>>

\* C9: has_overflow() is true exactly when overflow() is non-empty,
\* overflow() is the fields with non-empty overflow_value() in insertion
\* order, and a field whose whole value is its safe_value() is not among them.
C9_OverflowQueriesAgree ==
  BothQueried
    => /\ has_overflow_result.kind = "bool"
       /\ overflow_result.kind = "list"
       /\ has_overflow_result = PyBool(TRUE) <=> overflow_result.s # <<>>
       /\ overflow_result.s =
            SelectSeq(Keys(elements),
                      LAMBDA k : HasOverflowText(elements[KeyIndex(elements, k)]))
       /\ \A i \in 1..Len(elements) :
            WholeValueIsSafe(elements[i])
              => \A j \in 1..Len(overflow_result.s) :
                   overflow_result.s[j] # elements[i].key

(***************************************************************************)
(* Properties of load_offices (SpecOffices).                               *)
(***************************************************************************)
Finished == pc \in {"returned", "raised"}

\* the call met an address that could not be geocoded, a failed request, or
\* ended on a response without a features list or with a bad feature
Faulty ==
  \/ faults # {}
  \/ results.kind = "nofeatures"
  \/ /\ results.kind = "features"
     /\ \E i \in 1..Len(results.items) : results.items[i] = "bad"

\* C10: when the address cannot be geocoded, a query fails or the response
\* is malformed, load_offices returns without raising and appends no office.
C10_FaultsAreSwallowed ==
  (Finished /\ Faulty) => (pc = "returned" /\ offices = <<>>)


RECURSIVE Doubled(_, _)
Doubled(d, times) == IF times = 0 THEN d ELSE Doubled(2 * d, times - 1)

EnoughFeatures == results.kind = "features" /\ Len(results.items) >= number

\* at most 9 queries, the radius 5 miles doubled once per query after the
\* first, so at most 8 times and at most 1280 miles; a call that met no
\* fault and returned holds one office per feature of the last response
RadiusWithinCap ==
  /\ queries <= 9
  /\ queries >= 1
       => /\ distance = Doubled(5, queries - 1)
          /\ distance <= 1280
  /\ (pc = "returned" /\ ~Faulty)
       => /\ results.kind = "features"
          /\ offices = [i \in 1..Len(results.items) |-> "office"]

\* a further query is made only after a response with fewer than `number`
\* features, and it doubles the radius
QueriesOnlyWhileShort ==
  (queries >= 1 /\ queries' # queries)
    => /\ ~EnoughFeatures
       /\ results.kind = "features"
       /\ queries' = queries + 1
       /\ distance' = 2 * distance

\* C11: load_offices starts at 5 miles and doubles the radius after each
\* query that returned fewer than `number` features, at most 8 times (at
\* most 9 queries, at most 1280 miles); it makes no query after one that
\* returned at least `number` features; it always terminates, and a call
\* that met no fault populates the list from the last response, also when
\* that holds fewer than `number` features at the cap.
C11_RadiusDoublingTerminates ==
  /\ []RadiusWithinCap
  /\ [][QueriesOnlyWhileShort]_vars
  /\ <>Finished

C11_Witness ==
  /\ pc = "returned"
  /\ ~Faulty
  /\ queries = 9
  /\ distance = 1280
  /\ Len(results.items) < number
  /\ offices # <<>>

IsOpaqueField == value_if_defined(field_value).kind = "obj"

\* C12: for a field resolving to an opaque object (neither str nor list)
\* with an integer trigger, safe_value returns the value itself and
\* overflow_value returns an empty overflow without raising.
C12_OpaqueValueNoOverflow ==
  (IsOpaqueField /\ ~overflow_trigger.isBool /\ BothCalled)
    => /\ safe_text = value_if_defined(field_value)
       /\ overflow_text.kind # "error"
       /\ overflow_text \in {Str(<<>>), List(<<>>)}

\* safe_value was called on a str that takes the single-line branch
SingleLineTaken ==
  /\ IsStringField
  /\ ~overflow_trigger.isBool
  /\ ~FitsUnmodified(value_if_defined(field_value), overflow_trigger)
  /\ ~(preserve_newlines
       /\ max_lines(overflow_trigger, input_width, Len(overflow_message)) > 1)
  /\ safe_text # NotCalled

MarkerBudget == Max(overflow_trigger.n - Len(overflow_message), 0)

\* C13: in single-line mode, for a string not returned by the fast path,
\* safe_text is the value with line breaks collapsed to spaces and trailing
\* whitespace trimmed, cut to max(trigger - len(marker), 0) characters, with
\* the marker appended exactly when that normalized value is longer than
\* those characters.
C13_MarkerIffNormalizedTooLong ==
  SingleLineTaken
    => safe_text =
         Str(SliceTo(NormalSpaces, MarkerBudget)
             \o (IF Len(NormalSpaces) > MarkerBudget
                 THEN overflow_message ELSE <<>>))

\* safe_value was called on a str that takes the packing branch
PackingTaken ==
  /\ IsStringField
  /\ ~overflow_trigger.isBool
  /\ ~FitsUnmodified(value_if_defined(field_value), overflow_trigger)
  /\ preserve_newlines
  /\ LineBudget > 1
  /\ safe_text # NotCalled

\* lines a paragraph occupies: one if it is no longer than the width, else
\* one per chunk of `width` characters
ParagraphLines(p, width) ==
  IF Len(p) <= width THEN 1 ELSE (Len(p) + width - 1) \div width

RECURSIVE SumLines(_, _)
SumLines(ps, width) ==
  IF ps = <<>> THEN 0
  ELSE ParagraphLines(Head(ps), width) + SumLines(Tail(ps), width)

\* output lines of a text, the line break closing its last line not counted
OutputLines(t, width) ==
  LET closed == Len(t) > 0 /\ t[Len(t)] = NL
      body == IF closed THEN SliceTo(t, Len(t) - 1) ELSE t
  IN SumLines(Split(body, NL), width)

NoBreaks(t) == SelectSeq(t, LAMBDA c : c # NL)
IsPrefix(a, b) == Len(a) <= Len(b) /\ SliceTo(b, Len(a)) = a

\* safe_text is packed text followed by the marker exactly when the packed
\* text leaves some of the value's paragraph text out
MarkerIffTextRemains ==
  \E k \in 0..Len(safe_text.s) :
    LET packed == NoBreaks(SliceTo(safe_text.s, k))
        tail == SliceFrom(safe_text.s, k)
    IN /\ IsPrefix(packed, NoBreaks(NormalBreaks))
       /\ tail = IF packed = NoBreaks(NormalBreaks) THEN <<>>
                 ELSE overflow_message

\* C14: in preserve-line-breaks mode with max_lines > 1, for a string the
\* packing finishes, safe_text occupies at most max_lines output lines (one
\* per paragraph no longer than input_width, one per input_width chunk of a
\* longer one), and the marker is appended exactly when paragraph text
\* remains unconsumed.
C14_PackedWithinLineBudget ==
  PackingTaken
    => /\ safe_text.kind = "str"
       /\ OutputLines(safe_text.s, input_width) <= LineBudget
       /\ MarkerIffTextRemains

=============================================================================
